---- MODULE Spec2Model ----
(***************************************************************************)
(* Model of the question-answering front ends app.py (Streamlit) and       *)
(* LLM_QA_CLI.py (command-line loop): the text normaliser                  *)
(* preprocess_question, the inference client query_llm with its response   *)
(* and exception classification, and the two callers around them.          *)
(*                                                                         *)
(* A question text is a sequence of characters; a character is a string    *)
(* naming it ("q", "?", " ", and "I_dot" for U+0130, "dot_above" for       *)
(* U+0307).  HTTP bodies and returned messages are strings.                *)
(***************************************************************************)
EXTENDS Integers, Sequences, FiniteSets, TLC

\* ------------------------------------------------------------------------
\* Bounds
\* ------------------------------------------------------------------------
MaxLen == 4          \* longest input of the normaliser specification
MaxQLen == 1         \* longest typed question in the front-end specification
NumCallers == 2      \* concurrent callers of query_llm

\* ------------------------------------------------------------------------
\* Characters and texts
\* ------------------------------------------------------------------------
UpperAZ == "ABCDEFGHIJKLMNOPQRSTUVWXYZ"
LowerAZ == "abcdefghijklmnopqrstuvwxyz"

\* a string literal as a text (sequence of one-character strings)
Str(s) == [i \in 1..Len(s) |-> SubSeq(s, i, i)]

\* the characters inputs are built from: a cased letter in both cases, a
\* punctuation mark, the underscore, two kinds of whitespace, and the one
\* character whose lowercase form is two characters (U+0130 -> "i" U+0307)
Alphabet == {"Q", "q", "?", "_", " ", "\t", "I_dot", "dot_above"}

RECURSIVE TextsOfLen(_)
TextsOfLen(n) ==
  IF n = 0 THEN {<<>>}
  ELSE {Append(t, ch) : t \in TextsOfLen(n - 1), ch \in Alphabet}

TextsUpTo(n) == UNION {TextsOfLen(k) : k \in 0..n}

\* str.isspace() / the class \s
IsSpace(ch) == ch \in {" ", "\t", "\n", "\r"}

\* the class \w: letters, digits, underscore; a combining mark is not in it
IsWord(ch) ==
  \/ \E i \in 1..26 : ch = SubSeq(UpperAZ, i, i) \/ ch = SubSeq(LowerAZ, i, i)
  \/ ch \in {"_", "0", "1", "2", "3", "4", "5", "6", "7", "8", "9", "I_dot"}

\* str.lower() of one character
LowerChar(ch) ==
  IF ch = "I_dot" THEN <<"i", "dot_above">>
  ELSE IF \E i \in 1..26 : ch = SubSeq(UpperAZ, i, i)
       THEN <<SubSeq(LowerAZ, CHOOSE i \in 1..26 : ch = SubSeq(UpperAZ, i, i),
                            CHOOSE i \in 1..26 : ch = SubSeq(UpperAZ, i, i))>>
       ELSE <<ch>>

\* str.lower()
RECURSIVE PyLower(_)
PyLower(t) == IF t = <<>> THEN <<>> ELSE LowerChar(Head(t)) \o PyLower(Tail(t))

\* re.sub(r'[^\w\s]', '', t)
RECURSIVE RemovePunctuation(_)
RemovePunctuation(t) ==
  IF t = <<>> THEN <<>>
  ELSE IF IsWord(Head(t)) \/ IsSpace(Head(t))
       THEN <<Head(t)>> \o RemovePunctuation(Tail(t))
       ELSE RemovePunctuation(Tail(t))

\* str.split(): the maximal runs of non-whitespace, in order
RECURSIVE SplitFrom(_, _)
SplitFrom(t, cur) ==
  IF t = <<>> THEN (IF cur = <<>> THEN <<>> ELSE <<cur>>)
  ELSE IF IsSpace(Head(t))
       THEN (IF cur = <<>> THEN <<>> ELSE <<cur>>) \o SplitFrom(Tail(t), <<>>)
       ELSE SplitFrom(Tail(t), Append(cur, Head(t)))

PySplit(t) == SplitFrom(t, <<>>)

\* ' '.join(words)
RECURSIVE JoinSpace(_)
JoinSpace(words) ==
  IF words = <<>> THEN <<>>
  ELSE IF Len(words) = 1 THEN Head(words)
       ELSE Head(words) \o <<" ">> \o JoinSpace(Tail(words))

\* str.strip()
RECURSIVE LStrip(_)
LStrip(t) == IF t # <<>> /\ IsSpace(Head(t)) THEN LStrip(Tail(t)) ELSE t

RECURSIVE RStrip(_)
RStrip(t) ==
  IF t # <<>> /\ IsSpace(t[Len(t)]) THEN RStrip(SubSeq(t, 1, Len(t) - 1)) ELSE t

PyStrip(t) == RStrip(LStrip(t))

\* ------------------------------------------------------------------------
\* preprocess_question
\* ------------------------------------------------------------------------
\* the steps in the other order: punctuation removed before lowercasing
preprocess_question_punct_first(question) ==
  LET processed == JoinSpace(PySplit(PyLower(RemovePunctuation(question))))
  IN  [processed |-> processed, tokens |-> PySplit(processed)]

\* app.py: returns (processed, tokens)
preprocess_question(question) ==
  LET lowered   == PyLower(question)
      stripped  == RemovePunctuation(lowered)
      processed == JoinSpace(PySplit(stripped))
  IN  [processed |-> processed, tokens |-> PySplit(processed)]

\* LLM_QA_CLI.py: lowercases and collapses whitespace, keeps punctuation;
\* the tokens are printed, the text is returned
cli_preprocess_question(question) ==
  LET lowered   == PyLower(question)
      processed == JoinSpace(PySplit(lowered))
  IN  [processed |-> processed, tokens |-> PySplit(processed)]

\* ------------------------------------------------------------------------
\* Python values: what response.json() yields, and what query_llm returns
\* ------------------------------------------------------------------------
PyS(s)    == [t |-> "str",      s |-> s,  n |-> 0, items |-> <<>>]
PyInt(n)  == [t |-> "int",      s |-> "", n |-> n, items |-> <<>>]
PyNone    == [t |-> "NoneType", s |-> "", n |-> 0, items |-> <<>>]
\* a list holds its elements in order; a dict its (key, value) pairs in order
PyList(vals)  == [t |-> "list", s |-> "", n |-> 0,
                  items |-> [i \in DOMAIN vals |-> [k |-> "", v |-> vals[i]]]]
PyDict(pairs) == [t |-> "dict", s |-> "", n |-> 0,
                  items |-> [i \in DOMAIN pairs |-> [k |-> pairs[i][1], v |-> pairs[i][2]]]]

HasKey(d, key) == \E i \in DOMAIN d.items : d.items[i].k = key

\* dict.get(key, default)
DictGet(d, key, default) ==
  IF HasKey(d, key)
  THEN d.items[CHOOSE i \in DOMAIN d.items : d.items[i].k = key].v
  ELSE default

\* repr() of a value, as str() of a container shows its parts
RECURSIVE PyRepr(_)
RECURSIVE ReprItems(_, _)
ReprItems(v, i) ==
  IF i > Len(v.items) THEN ""
  ELSE (IF i > 1 THEN ", " ELSE "")
       \o (IF v.t = "dict" THEN "'" \o v.items[i].k \o "': " ELSE "")
       \o PyRepr(v.items[i].v)
       \o ReprItems(v, i + 1)
PyRepr(v) ==
  CASE v.t = "str"      -> "'" \o v.s \o "'"
    [] v.t = "int"      -> ToString(v.n)
    [] v.t = "NoneType" -> "None"
    [] v.t = "list"     -> "[" \o ReprItems(v, 1) \o "]"
    [] v.t = "dict"     -> "{" \o ReprItems(v, 1) \o "}"

\* str(), as an f-string applies it
PyStr(v) == IF v.t = "str" THEN v.s ELSE PyRepr(v)

\* str.strip() and str.startswith() on message strings
IsSpaceAt(s, i) == SubSeq(s, i, i) \in {" ", "\t", "\n", "\r"}

RECURSIVE StripString(_)
StripString(s) ==
  IF Len(s) > 0 /\ IsSpaceAt(s, 1) THEN StripString(SubSeq(s, 2, Len(s)))
  ELSE IF Len(s) > 0 /\ IsSpaceAt(s, Len(s)) THEN StripString(SubSeq(s, 1, Len(s) - 1))
  ELSE s

StartsWith(s, prefix) ==
  Len(s) >= Len(prefix) /\ SubSeq(s, 1, Len(prefix)) = prefix

\* ------------------------------------------------------------------------
\* The remote endpoint's replies
\* ------------------------------------------------------------------------
Statuses == {200, 404, 503}

B_Paris      == "[{\"generated_text\": \" Paris is the capital. \"}]"
B_Two        == "[{\"generated_text\": \"Paris\"}, {\"generated_text\": \"Rome\"}]"
B_NoField    == "[{\"score\": 1}]"
B_Blank      == "[{\"generated_text\": \"  \"}]"
B_LooksError == "[{\"generated_text\": \"API Error in the question\"}]"
B_LooksTime  == "[{\"generated_text\": \"Timeout Error: see above\"}]"
B_NumText    == "[{\"generated_text\": 5}]"
B_NullText   == "[{\"generated_text\": null}]"
B_NotRecord  == "[1]"
B_EmptyList  == "[]"
B_EmptyObj   == "{}"
B_Error      == "{\"error\": \"model loading\"}"
B_Detail     == "{\"detail\": \"Not Found\"}"
B_Both       == "{\"error\": \"bad token\", \"detail\": \"expired\"}"
B_Neither    == "{\"message\": \"busy\"}"
B_ErrorObj   == "{\"error\": {\"code\": 7}}"
B_Scalar     == "5"
B_Html       == "<html>Service Unavailable</html>"
B_Empty      == ""

Bodies == {B_Paris, B_Two, B_NoField, B_Blank, B_LooksError, B_LooksTime,
           B_NumText, B_NullText, B_NotRecord, B_EmptyList, B_EmptyObj,
           B_Error, B_Detail, B_Both, B_Neither, B_ErrorObj, B_Scalar,
           B_Html, B_Empty}

\* json.loads on the bodies above: ok with the value, or not ok (the parser
\* raises JSONDecodeError)
Parsed(v) == [ok |-> TRUE, value |-> v]
NotJson   == [ok |-> FALSE, value |-> PyNone]

ParseJson(text) ==
  CASE text = B_Paris      -> Parsed(PyList(<<PyDict(<<<<"generated_text", PyS(" Paris is the capital. ")>>>>)>>))
    [] text = B_Two        -> Parsed(PyList(<<PyDict(<<<<"generated_text", PyS("Paris")>>>>),
                                              PyDict(<<<<"generated_text", PyS("Rome")>>>>)>>))
    [] text = B_NoField    -> Parsed(PyList(<<PyDict(<<<<"score", PyInt(1)>>>>)>>))
    [] text = B_Blank      -> Parsed(PyList(<<PyDict(<<<<"generated_text", PyS("  ")>>>>)>>))
    [] text = B_LooksError -> Parsed(PyList(<<PyDict(<<<<"generated_text", PyS("API Error in the question")>>>>)>>))
    [] text = B_LooksTime  -> Parsed(PyList(<<PyDict(<<<<"generated_text", PyS("Timeout Error: see above")>>>>)>>))
    [] text = B_NumText    -> Parsed(PyList(<<PyDict(<<<<"generated_text", PyInt(5)>>>>)>>))
    [] text = B_NullText   -> Parsed(PyList(<<PyDict(<<<<"generated_text", PyNone>>>>)>>))
    [] text = B_NotRecord  -> Parsed(PyList(<<PyInt(1)>>))
    [] text = B_EmptyList  -> Parsed(PyList(<<>>))
    [] text = B_EmptyObj   -> Parsed(PyDict(<<>>))
    [] text = B_Error      -> Parsed(PyDict(<<<<"error", PyS("model loading")>>>>))
    [] text = B_Detail     -> Parsed(PyDict(<<<<"detail", PyS("Not Found")>>>>))
    [] text = B_Both       -> Parsed(PyDict(<<<<"error", PyS("bad token")>>, <<"detail", PyS("expired")>>>>))
    [] text = B_Neither    -> Parsed(PyDict(<<<<"message", PyS("busy")>>>>))
    [] text = B_ErrorObj   -> Parsed(PyDict(<<<<"error", PyDict(<<<<"code", PyInt(7)>>>>)>>>>))
    [] text = B_Scalar     -> Parsed(PyInt(5))
    [] OTHER               -> NotJson

\* ------------------------------------------------------------------------
\* Exceptions
\* ------------------------------------------------------------------------
NoExc == [cls |-> "", msg |-> ""]
Exc(cls, msg) == [cls |-> cls, msg |-> msg]

\* direct base classes: requests.exceptions and the builtins they rest on
Bases(cls) ==
  CASE cls = "ConnectionError"      -> {"RequestException"}
    [] cls = "Timeout"              -> {"RequestException"}
    [] cls = "ConnectTimeout"       -> {"ConnectionError", "Timeout"}
    [] cls = "ReadTimeout"          -> {"Timeout"}
    [] cls = "SSLError"             -> {"ConnectionError"}
    [] cls = "TooManyRedirects"     -> {"RequestException"}
    [] cls = "InvalidJSONError"     -> {"RequestException"}
    [] cls = "JSONDecodeError"      -> {"InvalidJSONError", "json.JSONDecodeError"}
    [] cls = "json.JSONDecodeError" -> {"ValueError"}
    [] cls = "RequestException"     -> {"OSError"}
    [] cls = "OSError"              -> {"Exception"}
    [] cls = "ValueError"           -> {"Exception"}
    [] cls = "AttributeError"       -> {"Exception"}
    [] OTHER                        -> {}

\* isinstance(e, base), which is what an except clause tests
RECURSIVE IsInstance(_, _)
IsInstance(cls, base) ==
  cls = base \/ \E b \in Bases(cls) : IsInstance(b, base)

AttributeError(v, attr) ==
  Exc("AttributeError", "'" \o v.t \o "' object has no attribute '" \o attr \o "'")

\* what response.json() raises on a body that is not JSON
JSONDecodeError == Exc("JSONDecodeError", "Expecting value: line 1 column 1 (char 0)")

\* what requests.post can raise instead of returning a response
E_Refused  == Exc("ConnectionError", "Max retries exceeded: connection refused")
E_SSL      == Exc("SSLError", "certificate verify failed")
E_ConnTime == Exc("ConnectTimeout", "connect timeout=30")
E_ReadTime == Exc("ReadTimeout", "read timeout=30")
E_Redirect == Exc("TooManyRedirects", "Exceeded 30 redirects.")

\* raised without waiting for the timeout
TransportErrors == {E_Refused, E_SSL, E_Redirect}

\* ------------------------------------------------------------------------
\* Results of requests.post and of query_llm
\* ------------------------------------------------------------------------
NoReply == [arrived |-> FALSE, status |-> 0, text |-> "", exc |-> NoExc]
Response(status, text) == [arrived |-> TRUE, status |-> status, text |-> text, exc |-> NoExc]
Failed(e) == [arrived |-> FALSE, status |-> 0, text |-> "", exc |-> e]

Responses == {Response(st, b) : st \in Statuses, b \in Bodies}

\* how a call ended: a return statement (kind names the statement that
\* returned) with its value, or an exception leaving the function
NoOutcome == [raised |-> FALSE, kind |-> "", value |-> PyNone, exc |-> NoExc]
Returned(kind, v) == [raised |-> FALSE, kind |-> kind, value |-> v, exc |-> NoExc]
Raised(e) == [raised |-> TRUE, kind |-> "", value |-> PyNone, exc |-> e]

\* ------------------------------------------------------------------------
\* app.py query_llm
\* ------------------------------------------------------------------------
M_Invalid    == "Error: Invalid response structure from API."
M_Connection == "Connection Error: Could not connect to the API endpoint. Check network or API URL."
M_Timeout    == "Timeout Error: The request took too long to complete. Try a simpler question."
M_Unexpected == "An unexpected error occurred: "
M_NoResponse == "No response generated"

\* status 200: lines 60-66
app_on_200(reply) ==
  LET j == ParseJson(reply.text) IN
  IF ~j.ok THEN Raised(JSONDecodeError)
  ELSE IF j.value.t = "list" /\ Len(j.value.items) > 0
  THEN LET first == j.value.items[1].v IN
       IF first.t # "dict" THEN Raised(AttributeError(first, "get"))
       ELSE LET text == DictGet(first, "generated_text", PyS(M_NoResponse)) IN
            IF text.t # "str" THEN Raised(AttributeError(text, "strip"))
            ELSE Returned("Answer", PyS(StripString(text.s)))
  ELSE Returned("InvalidResponseStructure", PyS(M_Invalid))

\* any other status: lines 69-78; the inner try catches json.JSONDecodeError only
app_on_error_status(reply) ==
  LET j == ParseJson(reply.text)
      api_error(message) ==
        Returned("ApiError",
                 PyS("API Error " \o ToString(reply.status) \o ": " \o PyStr(message)))
  IN
  IF ~j.ok
  THEN (IF IsInstance(JSONDecodeError.cls, "json.JSONDecodeError")
        THEN api_error(PyS(reply.text))
        ELSE Raised(JSONDecodeError))
  ELSE IF j.value.t # "dict" THEN Raised(AttributeError(j.value, "get"))
  ELSE api_error(DictGet(j.value, "error", DictGet(j.value, "detail", PyS(reply.text))))

\* the body of the try block, lines 41-78
app_try_body(reply) ==
  IF ~reply.arrived THEN Raised(reply.exc)
  ELSE IF reply.status = 200 THEN app_on_200(reply)
  ELSE app_on_error_status(reply)

\* the clauses without the last one
app_except_no_catch_all(e) ==
  IF IsInstance(e.cls, "ConnectionError") THEN Returned("ConnectionError", PyS(M_Connection))
  ELSE IF IsInstance(e.cls, "Timeout") THEN Returned("TimeoutError", PyS(M_Timeout))
  ELSE Raised(e)

\* the Timeout clause written before the ConnectionError clause
app_except_timeout_first(e) ==
  IF IsInstance(e.cls, "Timeout") THEN Returned("TimeoutError", PyS(M_Timeout))
  ELSE IF IsInstance(e.cls, "ConnectionError") THEN Returned("ConnectionError", PyS(M_Connection))
  ELSE IF IsInstance(e.cls, "Exception") THEN Returned("UnexpectedError", PyS(M_Unexpected \o e.msg))
  ELSE Raised(e)

\* the except clauses, lines 80-85, tried in the order written
app_except(e) ==
  IF IsInstance(e.cls, "ConnectionError") THEN Returned("ConnectionError", PyS(M_Connection))
  ELSE IF IsInstance(e.cls, "Timeout") THEN Returned("TimeoutError", PyS(M_Timeout))
  ELSE IF IsInstance(e.cls, "Exception") THEN Returned("UnexpectedError", PyS(M_Unexpected \o e.msg))
  ELSE Raised(e)

\* query_llm once requests.post has ended with reply
app_query_llm(reply) ==
  LET body == app_try_body(reply) IN
  IF body.raised THEN app_except(body.exc) ELSE body

\* ------------------------------------------------------------------------
\* LLM_QA_CLI.py query_llm
\* ------------------------------------------------------------------------
\* the body of the try block, lines 29-56
cli_try_body(reply) ==
  IF ~reply.arrived THEN Raised(reply.exc)
  ELSE IF reply.status = 200
  THEN LET j == ParseJson(reply.text) IN
       IF ~j.ok THEN Raised(JSONDecodeError)
       ELSE IF j.value.t = "list" /\ Len(j.value.items) > 0
       THEN LET first == j.value.items[1].v IN
            IF first.t # "dict" THEN Raised(AttributeError(first, "get"))
            ELSE Returned("Answer", DictGet(first, "generated_text", PyS(M_NoResponse)))
       ELSE Returned("StrResult", PyS(PyStr(j.value)))
  ELSE Returned("HttpError",
                PyS("Error: " \o ToString(reply.status) \o " - " \o reply.text))

\* the single except clause, lines 58-59
cli_except(e) ==
  IF IsInstance(e.cls, "Exception") THEN Returned("Exception", PyS("Error: " \o e.msg))
  ELSE Raised(e)

cli_query_llm(reply) ==
  LET body == cli_try_body(reply) IN
  IF body.raised THEN cli_except(body.exc) ELSE body

\* ------------------------------------------------------------------------
\* State
\* ------------------------------------------------------------------------
Callers == 1..NumCallers
Main == 1

VARIABLES
  API_MODEL,           \* app.py module global
  API_URL,             \* app.py module global
  program,             \* per caller: "app", "cli", or "none" when not started
  pc,                  \* per caller: where it is
  api_key,             \* per caller: the credential it holds
  user_question,       \* per caller: the question as entered
  processed_question,  \* per caller: the text passed to query_llm
  tokens,              \* per caller: the token list
  posts,               \* per caller: POSTs issued since the question was entered
  wire,                \* per caller: the request given to requests.post
  reply,               \* per caller: how requests.post ended
  outcome,             \* per caller: how query_llm ended
  shown,               \* per caller: what was last displayed
  first_pass           \* per caller: result of the first normalisation

vars == <<API_MODEL, API_URL, program, pc, api_key, user_question,
          processed_question, tokens, posts, wire, reply, outcome, shown,
          first_pass>>

config == <<API_MODEL, API_URL>>

APP_API_MODEL == "mistralai/Mistral-7B-Instruct-v0.2"
APP_API_URL   == "https://router.huggingface.co/" \o APP_API_MODEL
CLI_API_URL   == "https://api-inference.huggingface.co/models/mistralai/Mistral-7B-Instruct-v0.2"

AppTimeout == 30     \* timeout=30 in app.py
NoTimeout  == 0      \* LLM_QA_CLI.py passes no timeout: the call may block forever

PromptHead == Str("<s>[INST] Answer the following question concisely and accurately:\n\nQuestion: ")
PromptTail == Str("\n\nAnswer: [/INST]")

NoRequest == [url |-> "", authorization |-> "", inputs |-> <<>>,
              max_new_tokens |-> 0, temperature |-> "", top_p |-> "",
              return_full_text |-> FALSE, timeout |-> NoTimeout]

\* headers, prompt and payload as query_llm builds them
BuildRequest(prog, url, question, key) ==
  [url |-> IF prog = "app" THEN url ELSE CLI_API_URL,
   authorization |-> "Bearer " \o key,
   inputs |-> PromptHead \o question \o PromptTail,
   max_new_tokens |-> 500, temperature |-> "0.7", top_p |-> "0.95",
   return_full_text |-> FALSE,
   timeout |-> IF prog = "app" THEN AppTimeout ELSE NoTimeout]

NothingShown == [style |-> "none", text |-> ""]
Show(style, text) == [style |-> style, text |-> text]

NoPass == [processed |-> <<>>, tokens |-> <<>>]

\* what a caller holds before it has done anything
Blank(p) ==
  /\ API_MODEL = APP_API_MODEL
  /\ API_URL = APP_API_URL
  /\ program \in [Callers -> {"app", "cli", "none"}]
  /\ \A c \in Callers : program[c] \in p[c]
  /\ api_key = [c \in Callers |-> ""]
  /\ processed_question = [c \in Callers |-> <<>>]
  /\ tokens = [c \in Callers |-> <<>>]
  /\ posts = [c \in Callers |-> 0]
  /\ wire = [c \in Callers |-> NoRequest]
  /\ reply = [c \in Callers |-> NoReply]
  /\ outcome = [c \in Callers |-> NoOutcome]
  /\ shown = [c \in Callers |-> NothingShown]
  /\ first_pass = [c \in Callers |-> NoPass]

\* ------------------------------------------------------------------------
\* Inputs
\* ------------------------------------------------------------------------
ApiKeys == {"", "hf_key"}
TypedKeys == {"", "  ", " hf_key "}

\* what a user types: every short text, and the words the CLI loop knows
Questions ==
  TextsUpTo(MaxQLen) \cup
  {Str("quit"), Str("EXIT"), Str(" Quit "), Str("quit?"), Str("Hi  there?"),
   Str(" \t"), Str("?!"), Str(" q ")}

QuitWords == {Str("quit"), Str("exit"), Str("q")}

\* ------------------------------------------------------------------------
\* query_llm, step by step
\* ------------------------------------------------------------------------
\* a second POST after the first
QueryPostTwice(c) ==
  /\ pc[c] = "call"
  /\ posts' = [posts EXCEPT ![c] = @ + 2]
  /\ wire' = [wire EXCEPT ![c] =
                BuildRequest(program[c], API_URL, processed_question[c], api_key[c])]
  /\ pc' = [pc EXCEPT ![c] = "wait"]
  /\ UNCHANGED <<config, program, api_key, user_question, processed_question,
                 tokens, reply, outcome, shown, first_pass>>

\* entry to query_llm up to requests.post: the one POST leaves
QueryPost(c) ==
  /\ pc[c] = "call"
  /\ posts' = [posts EXCEPT ![c] = @ + 1]
  /\ wire' = [wire EXCEPT ![c] =
                BuildRequest(program[c], API_URL, processed_question[c], api_key[c])]
  /\ pc' = [pc EXCEPT ![c] = "wait"]
  /\ UNCHANGED <<config, program, api_key, user_question, processed_question,
                 tokens, reply, outcome, shown, first_pass>>

\* requests.post returns a response
NetRespond(c, r) ==
  /\ pc[c] = "wait"
  /\ reply' = [reply EXCEPT ![c] = r]
  /\ pc' = [pc EXCEPT ![c] = "got"]
  /\ UNCHANGED <<config, program, api_key, user_question, processed_question,
                 tokens, posts, wire, outcome, shown, first_pass>>

\* requests.post raises: no connection, TLS failure, redirect loop
NetFail(c, e) ==
  /\ pc[c] = "wait"
  /\ reply' = [reply EXCEPT ![c] = Failed(e)]
  /\ pc' = [pc EXCEPT ![c] = "got"]
  /\ UNCHANGED <<config, program, api_key, user_question, processed_question,
                 tokens, posts, wire, outcome, shown, first_pass>>

\* the timeout given to requests.post expires, while connecting or while
\* waiting for the response; without a timeout this never happens
TimerFires(c, e) ==
  /\ pc[c] = "wait"
  /\ wire[c].timeout # NoTimeout
  /\ e \in {E_ConnTime, E_ReadTime}
  /\ reply' = [reply EXCEPT ![c] = Failed(e)]
  /\ pc' = [pc EXCEPT ![c] = "got"]
  /\ UNCHANGED <<config, program, api_key, user_question, processed_question,
                 tokens, posts, wire, outcome, shown, first_pass>>

\* the reply of whichever call answered last
QueryOutcomeShared(c) ==
  LET last == IF \E d \in Callers : d > c /\ reply[d] # NoReply
              THEN reply[CHOOSE d \in Callers : d > c /\ reply[d] # NoReply]
              ELSE reply[c]
  IN  IF program[c] = "cli" THEN cli_query_llm(last) ELSE app_query_llm(last)

\* what the call of caller c comes to
QueryOutcome(c) ==
  IF program[c] = "cli" THEN cli_query_llm(reply[c]) ELSE app_query_llm(reply[c])

\* the rest of query_llm: classify and return (or raise)
QueryReturn(c) ==
  /\ pc[c] = "got"
  /\ outcome' = [outcome EXCEPT ![c] = QueryOutcome(c)]
  /\ pc' = [pc EXCEPT ![c] = IF QueryOutcome(c).raised THEN "crashed" ELSE "returned"]
  /\ UNCHANGED <<config, program, api_key, user_question, processed_question,
                 tokens, posts, wire, reply, shown, first_pass>>

\* ------------------------------------------------------------------------
\* app.py: the Streamlit script
\* ------------------------------------------------------------------------
\* what a new run of the script or a new loop iteration starts from
FreshRun(c) ==
  /\ posts' = [posts EXCEPT ![c] = 0]
  /\ wire' = [wire EXCEPT ![c] = NoRequest]
  /\ reply' = [reply EXCEPT ![c] = NoReply]
  /\ outcome' = [outcome EXCEPT ![c] = NoOutcome]

\* first run of the script: the key field is filled from HUGGINGFACE_API_KEY
\* (lines 99-102), the button is not pressed
AppLoad(c, env) ==
  /\ pc[c] = "start" /\ program[c] = "app"
  /\ api_key' = [api_key EXCEPT ![c] = env]
  /\ pc' = [pc EXCEPT ![c] = "ready"]
  /\ UNCHANGED <<config, program, user_question, processed_question, tokens,
                 posts, wire, reply, outcome, shown, first_pass>>

\* lines 156-159: the answer is styled by its first words
AppStyle(answer) ==
  IF \/ StartsWith(answer, "API Error")
     \/ StartsWith(answer, "Connection Error")
     \/ StartsWith(answer, "An unexpected error occurred:")
  THEN "error" ELSE "success"

\* the button is pressed with key k and question q in the widgets:
\* lines 128-150, up to the call of query_llm
AppClick(c, k, q) ==
  /\ pc[c] = "ready" /\ program[c] = "app"
  /\ api_key' = [api_key EXCEPT ![c] = k]
  /\ user_question' = [user_question EXCEPT ![c] = q]
  /\ FreshRun(c)
  /\ IF k = ""
     THEN /\ shown' = [shown EXCEPT ![c] =
                 Show("error", "Please enter your HuggingFace API key in the sidebar!")]
          /\ pc' = pc
          /\ UNCHANGED <<processed_question, tokens>>
     ELSE IF PyStrip(q) = <<>>
     THEN /\ shown' = [shown EXCEPT ![c] = Show("error", "Please enter a question!")]
          /\ pc' = pc
          /\ UNCHANGED <<processed_question, tokens>>
     ELSE /\ processed_question' =
                 [processed_question EXCEPT ![c] = preprocess_question(q).processed]
          /\ tokens' = [tokens EXCEPT ![c] = preprocess_question(q).tokens]
          /\ shown' = [shown EXCEPT ![c] = NothingShown]
          /\ pc' = [pc EXCEPT ![c] = "call"]
  /\ UNCHANGED <<config, program, first_pass>>

\* lines 153-159: query_llm has returned, the answer is displayed
AppRender(c) ==
  /\ pc[c] = "returned" /\ program[c] = "app"
  /\ shown' = [shown EXCEPT ![c] =
                 Show(AppStyle(outcome[c].value.s), outcome[c].value.s)]
  /\ pc' = [pc EXCEPT ![c] = "ready"]
  /\ UNCHANGED <<config, program, api_key, user_question, processed_question,
                 tokens, posts, wire, reply, outcome, first_pass>>

\* ------------------------------------------------------------------------
\* LLM_QA_CLI.py: main
\* ------------------------------------------------------------------------
\* lines 70-80: the key from the environment, else typed and stripped
CliStart(c, env, typed) ==
  /\ pc[c] = "start" /\ program[c] = "cli"
  /\ LET key == IF env # "" THEN env ELSE StripString(typed) IN
       /\ api_key' = [api_key EXCEPT ![c] = key]
       /\ IF key = ""
          THEN /\ shown' = [shown EXCEPT ![c] = Show("plain", "Error: API key is required!")]
               /\ pc' = [pc EXCEPT ![c] = "exited"]
          ELSE /\ shown' = shown
               /\ pc' = [pc EXCEPT ![c] = "prompt"]
  /\ UNCHANGED <<config, program, user_question, processed_question, tokens,
                 posts, wire, reply, outcome, first_pass>>

\* one line read with every check dropped
CliReadUnchecked(c, line) ==
  /\ pc[c] = "prompt" /\ program[c] = "cli"
  /\ FreshRun(c)
  /\ user_question' = [user_question EXCEPT ![c] = PyStrip(line)]
  /\ processed_question' =
        [processed_question EXCEPT ![c] = cli_preprocess_question(PyStrip(line)).processed]
  /\ tokens' = [tokens EXCEPT ![c] = cli_preprocess_question(PyStrip(line)).tokens]
  /\ shown' = [shown EXCEPT ![c] = NothingShown]
  /\ pc' = [pc EXCEPT ![c] = "call"]
  /\ UNCHANGED <<config, program, api_key, first_pass>>

\* lines 84-99: one line is read, up to the call of query_llm
CliRead(c, line) ==
  /\ pc[c] = "prompt" /\ program[c] = "cli"
  /\ FreshRun(c)
  /\ LET question == PyStrip(line) IN
       /\ user_question' = [user_question EXCEPT ![c] = question]
       /\ IF PyLower(question) \in QuitWords
          THEN /\ shown' = [shown EXCEPT ![c] = Show("plain", "Goodbye!")]
               /\ pc' = [pc EXCEPT ![c] = "exited"]
               /\ UNCHANGED <<processed_question, tokens>>
          ELSE IF question = <<>>
          THEN /\ shown' = [shown EXCEPT ![c] =
                      Show("plain", "Please enter a valid question.")]
               /\ pc' = pc
               /\ UNCHANGED <<processed_question, tokens>>
          ELSE /\ processed_question' =
                      [processed_question EXCEPT ![c] = cli_preprocess_question(question).processed]
               /\ tokens' = [tokens EXCEPT ![c] = cli_preprocess_question(question).tokens]
               /\ shown' = [shown EXCEPT ![c] = NothingShown]
               /\ pc' = [pc EXCEPT ![c] = "call"]
  /\ UNCHANGED <<config, program, api_key, first_pass>>

\* lines 102-106: query_llm has returned, the answer is printed
CliPrint(c) ==
  /\ pc[c] = "returned" /\ program[c] = "cli"
  /\ shown' = [shown EXCEPT ![c] = Show("plain", PyStr(outcome[c].value))]
  /\ pc' = [pc EXCEPT ![c] = "prompt"]
  /\ UNCHANGED <<config, program, api_key, user_question, processed_question,
                 tokens, posts, wire, reply, outcome, first_pass>>

\* ------------------------------------------------------------------------
\* The front ends: one program, started as app.py or as LLM_QA_CLI.py
\* ------------------------------------------------------------------------
Init ==
  /\ Blank([c \in Callers |-> IF c = Main THEN {"app", "cli"} ELSE {"none"}])
  /\ pc = [c \in Callers |-> IF c = Main THEN "start" ELSE "idle"]
  /\ user_question = [c \in Callers |-> <<>>]

Next ==
  \/ \E env \in ApiKeys : AppLoad(Main, env)
  \/ \E k \in ApiKeys, q \in Questions : AppClick(Main, k, q)
  \/ AppRender(Main)
  \/ \E env \in ApiKeys, typed \in TypedKeys : CliStart(Main, env, typed)
  \/ \E line \in Questions : CliRead(Main, line)
  \/ CliPrint(Main)
  \/ QueryPost(Main)
  \/ \E r \in Responses : NetRespond(Main, r)
  \/ \E e \in TransportErrors : NetFail(Main, e)
  \/ \E e \in {E_ConnTime, E_ReadTime} : TimerFires(Main, e)
  \/ QueryReturn(Main)

Spec == Init /\ [][Next]_vars

\* the program's own steps are taken when they can be, and a timeout that
\* was set does expire; the remote endpoint owes nothing
Fairness ==
  /\ WF_vars(QueryPost(Main))
  /\ WF_vars(QueryReturn(Main))
  /\ WF_vars(AppRender(Main))
  /\ WF_vars(CliPrint(Main))
  /\ WF_vars(\E e \in {E_ConnTime, E_ReadTime} : TimerFires(Main, e))

SpecLive == Init /\ [][Next]_vars /\ Fairness

\* ------------------------------------------------------------------------
\* Several callers of app.py's query_llm at once
\* ------------------------------------------------------------------------
CallQuestions == {Str("q"), Str("hi there")}
CallKeys == {"hf_key", "hf_other"}
CallResponses == {Response(200, B_Paris), Response(200, B_EmptyObj),
                  Response(200, B_Html), Response(503, B_Error)}

\* a caller calls query_llm(q, k)
Invoke(c, q, k) ==
  /\ pc[c] = "idle"
  /\ FreshRun(c)
  /\ processed_question' = [processed_question EXCEPT ![c] = q]
  /\ api_key' = [api_key EXCEPT ![c] = k]
  /\ pc' = [pc EXCEPT ![c] = "call"]
  /\ UNCHANGED <<config, program, user_question, tokens, shown, first_pass>>

\* the caller has taken the result, which it keeps; the call's locals are gone
Ack(c) ==
  /\ pc[c] = "returned"
  /\ posts' = [posts EXCEPT ![c] = 0]
  /\ wire' = [wire EXCEPT ![c] = NoRequest]
  /\ reply' = [reply EXCEPT ![c] = NoReply]
  /\ processed_question' = [processed_question EXCEPT ![c] = <<>>]
  /\ api_key' = [api_key EXCEPT ![c] = ""]
  /\ pc' = [pc EXCEPT ![c] = "idle"]
  /\ UNCHANGED <<config, program, user_question, tokens, outcome, shown, first_pass>>

InitCalls ==
  /\ Blank([c \in Callers |-> {"app"}])
  /\ pc = [c \in Callers |-> "idle"]
  /\ user_question = [c \in Callers |-> <<>>]

NextCalls ==
  \E c \in Callers :
    \/ \E q \in CallQuestions, k \in CallKeys : Invoke(c, q, k)
    \/ QueryPost(c)
    \/ \E r \in CallResponses : NetRespond(c, r)
    \/ NetFail(c, E_Refused)
    \/ \E e \in {E_ConnTime, E_ReadTime} : TimerFires(c, e)
    \/ QueryReturn(c)
    \/ Ack(c)

SpecCalls == InitCalls /\ [][NextCalls]_vars

\* ------------------------------------------------------------------------
\* The normaliser on its own: every text up to MaxLen, normalised twice
\* ------------------------------------------------------------------------
Normalise(prog, question) ==
  IF prog = "cli" THEN cli_preprocess_question(question)
  ELSE preprocess_question(question)

\* first application, to the input
NormaliseOnce(c) ==
  /\ pc[c] = "norm0"
  /\ first_pass' = [first_pass EXCEPT ![c] = Normalise(program[c], user_question[c])]
  /\ processed_question' =
        [processed_question EXCEPT ![c] = Normalise(program[c], user_question[c]).processed]
  /\ tokens' = [tokens EXCEPT ![c] = Normalise(program[c], user_question[c]).tokens]
  /\ pc' = [pc EXCEPT ![c] = "norm1"]
  /\ UNCHANGED <<config, program, api_key, user_question, posts, wire, reply,
                 outcome, shown>>

\* second application, to the text the first one returned
NormaliseAgain(c) ==
  /\ pc[c] = "norm1"
  /\ processed_question' =
        [processed_question EXCEPT ![c] = Normalise(program[c], processed_question[c]).processed]
  /\ tokens' = [tokens EXCEPT ![c] = Normalise(program[c], processed_question[c]).tokens]
  /\ pc' = [pc EXCEPT ![c] = "norm2"]
  /\ UNCHANGED <<config, program, api_key, user_question, posts, wire, reply,
                 outcome, shown, first_pass>>

InitNorm ==
  /\ Blank([c \in Callers |-> IF c = Main THEN {"app", "cli"} ELSE {"none"}])
  /\ pc = [c \in Callers |-> IF c = Main THEN "norm0" ELSE "idle"]
  /\ user_question \in {[c \in Callers |-> IF c = Main THEN q ELSE <<>>] :
                           q \in TextsUpTo(MaxLen)}

NextNorm == NormaliseOnce(Main) \/ NormaliseAgain(Main)

SpecNorm == InitNorm /\ [][NextNorm]_vars

\* ------------------------------------------------------------------------
\* Claims
\* ------------------------------------------------------------------------
IsApp(c) == program[c] = "app"
HasReturned(c) == pc[c] = "returned"

AppKinds == {"Answer", "InvalidResponseStructure", "ApiError", "ConnectionError",
             "TimeoutError", "UnexpectedError"}
CliKinds == {"Answer", "StrResult", "HttpError", "Exception"}

\* C1: query_llm never raises outward: whatever requests.post did (any
\* status, any body, any exception), the call ends by returning a value,
\* an answer or one of the failure messages, in app.py and in the CLI.
C1_NeverRaises ==
  \A c \in Callers :
    /\ pc[c] # "crashed"
    /\ ~outcome[c].raised
    /\ HasReturned(c) =>
         /\ reply[c] # NoReply
         /\ outcome[c].kind \in (IF IsApp(c) THEN AppKinds ELSE CliKinds)
         /\ IsApp(c) => outcome[c].value.t = "str"

\* a status 200 whose first list element is not a record makes .get raise
\* inside the try block; the call still returns
C1_Witness ==
  \E c \in Callers :
    /\ IsApp(c) /\ HasReturned(c)
    /\ reply[c] = Response(200, B_NotRecord)
    /\ outcome[c].kind = "UnexpectedError"

\* the body is a non-empty list of records
IsRecordList(text) ==
  /\ ParseJson(text).ok
  /\ ParseJson(text).value.t = "list"
  /\ Len(ParseJson(text).value.items) > 0
  /\ \A i \in DOMAIN ParseJson(text).value.items :
        ParseJson(text).value.items[i].v.t = "dict"

\* C2 as stated: on status 200 app.py's query_llm returns Answer exactly
\* when the body is a non-empty list of records, and InvalidResponseStructure,
\* no other failure, for every other body (object, empty list, not JSON).
C2_Status200AsClaimed ==
  \A c \in Callers :
    (IsApp(c) /\ HasReturned(c) /\ reply[c].arrived /\ reply[c].status = 200) =>
      IF IsRecordList(reply[c].text)
      THEN outcome[c].kind = "Answer"
      ELSE outcome[c].kind = "InvalidResponseStructure"

\* the message the claim expects for a body: error, else detail, else raw text
ClaimedMessage(text) ==
  LET j == ParseJson(text) IN
  IF j.ok /\ j.value.t = "dict" /\ HasKey(j.value, "error")
  THEN PyStr(DictGet(j.value, "error", PyNone))
  ELSE IF j.ok /\ j.value.t = "dict" /\ HasKey(j.value, "detail")
  THEN PyStr(DictGet(j.value, "detail", PyNone))
  ELSE text

\* C3 as stated: every response with a status other than 200 is returned by
\* app.py's query_llm as ApiError, with the status and the error field, else
\* the detail field, else the raw body, whatever the shape of the body.
C3_ErrorStatusAsClaimed ==
  \A c \in Callers :
    (IsApp(c) /\ HasReturned(c) /\ reply[c].arrived /\ reply[c].status # 200) =>
      /\ outcome[c].kind = "ApiError"
      /\ outcome[c].value.s =
           "API Error " \o ToString(reply[c].status) \o ": " \o ClaimedMessage(reply[c].text)

TransportFailed(c) ==
  IsApp(c) /\ HasReturned(c) /\ ~reply[c].arrived /\ reply[c].exc # NoExc

\* C4 as stated: a transport failure of app.py's query_llm is ConnectionError
\* when no connection could be made, TimeoutError when the timeout was
\* exceeded, also while still connecting, and UnexpectedError otherwise.
C4_TransportAsClaimed ==
  \A c \in Callers :
    TransportFailed(c) =>
      outcome[c].kind =
        (CASE reply[c].exc.cls \in {"ConnectTimeout", "ReadTimeout"} -> "TimeoutError"
           [] reply[c].exc.cls \in {"ConnectionError", "SSLError"}   -> "ConnectionError"
           [] OTHER -> "UnexpectedError")

\* C4 amended: the except clauses are tried in the order written, so a
\* failure to connect, a connect timeout included, is ConnectionError; only
\* a timeout after the connection was made is TimeoutError; anything else
\* is UnexpectedError carrying str(e). Exactly one of the three.
C4_TransportInClauseOrder ==
  \A c \in Callers :
    TransportFailed(c) =>
      /\ outcome[c].kind \in {"ConnectionError", "TimeoutError", "UnexpectedError"}
      /\ outcome[c].kind = "ConnectionError" <=>
            reply[c].exc.cls \in {"ConnectionError", "SSLError", "ConnectTimeout"}
      /\ outcome[c].kind = "TimeoutError" <=> reply[c].exc.cls = "ReadTimeout"
      /\ outcome[c].kind = "ConnectionError" => outcome[c].value.s = M_Connection
      /\ outcome[c].kind = "TimeoutError" => outcome[c].value.s = M_Timeout
      /\ outcome[c].kind = "UnexpectedError" =>
            outcome[c].value.s = M_Unexpected \o reply[c].exc.msg

\* the timeout expired while connecting, and the call reports a connection error
C4_Witness ==
  \E c \in Callers :
    /\ TransportFailed(c)
    /\ reply[c].exc = E_ConnTime
    /\ outcome[c].kind = "ConnectionError"

\* C5: each call of query_llm issues exactly one POST: none before the call,
\* one from requests.post on, on every path, and never a second one.
C5_ExactlyOnePost ==
  \A c \in Callers :
    /\ posts[c] <= 1
    /\ pc[c] \in {"wait", "got", "returned", "crashed"} => posts[c] = 1
    /\ pc[c] = "call" => posts[c] = 0
    /\ outcome[c] # NoOutcome => posts[c] = 1
    /\ posts[c] = 1 <=> wire[c] # NoRequest

\* a call that failed to connect has returned, one POST made
C5_Witness ==
  \E c \in Callers :
    /\ HasReturned(c)
    /\ outcome[c].kind \in {"ConnectionError", "Exception"}
    /\ posts[c] = 1

\* C6 as stated: every call of query_llm eventually returns, in app.py and
\* in the CLI loop, even when the endpoint never responds.
C6_EventuallyReturns ==
  \A c \in Callers : (pc[c] = "wait") ~> (pc[c] = "returned")

\* C7: calls are independent: each call's request carries its own question
\* and credential, its outcome is the outcome of its own reply alone, and
\* the configuration is what it was at start.
C7_CallsIndependent ==
  /\ API_MODEL = APP_API_MODEL
  /\ API_URL = APP_API_URL
  /\ \A c \in Callers :
       /\ pc[c] \in {"wait", "got", "returned"} =>
            wire[c] = BuildRequest("app", APP_API_URL, processed_question[c], api_key[c])
       /\ HasReturned(c) => outcome[c] = app_query_llm(reply[c])

\* two calls in flight at once with different replies, one of them returned
C7_Witness ==
  \E c, d \in Callers :
    /\ c # d
    /\ HasReturned(c)
    /\ pc[d] \in {"got", "returned"}
    /\ reply[c] # reply[d]
    /\ api_key[c] # api_key[d]

\* the input has no word character: whitespace and punctuation only
NoWordChar(t) == \A i \in DOMAIN t : ~IsWord(t[i])
OnlySpace(t) == \A i \in DOMAIN t : IsSpace(t[i])

IdempotentAt(c) ==
  pc[c] = "norm2" =>
    /\ processed_question[c] = first_pass[c].processed
    /\ tokens[c] = first_pass[c].tokens

AppDisplayed(c) ==
  IsApp(c) /\ pc[c] = "ready" /\ outcome[c] # NoOutcome

\* C9 as stated: app.py shows every failure of query_llm with error styling
\* and every answer with success styling, whatever the answer's text.
C9_StylingAsClaimed ==
  \A c \in Callers :
    AppDisplayed(c) =>
      shown[c].style = (IF outcome[c].kind = "Answer" THEN "success" ELSE "error")

RejectionTexts == {"Please enter your HuggingFace API key in the sidebar!",
                   "Please enter a question!",
                   "Please enter a valid question.",
                   "Error: API key is required!",
                   "Goodbye!"}

\* C10: a POST is issued only for a non-empty credential and a question
\* that is non-empty after trimming (and in the CLI not quit, exit or q);
\* the text sent is preprocess_question of that question; a rejected input
\* leaves no request behind and the caller ready for the next question
\* (or, for a quit word or a missing key in the CLI, ended).
C10_NoRequestForRejectedInput ==
  \A c \in Callers :
    /\ (posts[c] > 0 \/ pc[c] = "call") =>
         /\ api_key[c] # ""
         /\ PyStrip(user_question[c]) # <<>>
         /\ program[c] = "cli" => PyLower(PyStrip(user_question[c])) \notin QuitWords
         /\ processed_question[c] = Normalise(program[c], user_question[c]).processed
    /\ posts[c] > 0 =>
         /\ wire[c].inputs = PromptHead \o processed_question[c] \o PromptTail
         /\ wire[c].authorization = "Bearer " \o api_key[c]
    /\ shown[c].text \in RejectionTexts =>
         /\ posts[c] = 0 /\ wire[c] = NoRequest
         /\ pc[c] \in {"ready", "prompt", "exited"}
    /\ (pc[c] \in {"ready", "prompt"} /\ PyStrip(user_question[c]) = <<>>) =>
         posts[c] = 0
    /\ (api_key[c] = "" \/ pc[c] = "exited") => posts[c] = 0

\* app.py has rejected a question of whitespace only and waits for the next
C10_Witness ==
  \E c \in Callers :
    /\ IsApp(c) /\ pc[c] = "ready"
    /\ api_key[c] # ""
    /\ user_question[c] # <<>> /\ PyStrip(user_question[c]) = <<>>
    /\ shown[c].text = "Please enter a question!"
    /\ posts[c] = 0

====
